---- MODULE Spec2Model ----
\* Model of engine/src/scheme.rs: the field registry (Scheme), the dotted
\* field lexer (Field::lex_with) and the diagnostic positioning (ParseError).
\*
\* Strings are sequences of one-character strings; a slice of a string is a
\* 0-based byte offset into it plus a length, as the Rust code's pointers are.
EXTENDS Integers, Sequences, FiniteSets, TLC

VARIABLES
    pc,        \* position of the run: which operation was applied last
    fields,    \* Scheme.fields: the IndexMap, as a sequence of [name, ty]
    slot,      \* history: name -> slot index it was given when registered
    assigned,  \* history: name -> type of its latest non-fatal registration
    call,      \* the last registry call and its outcome
    input,     \* the text handed to Field::lex_with
    result,    \* the LexResult of Field::lex_with
    src,       \* the original text handed to Scheme::parse
    err,       \* the ParseError built from it
    out        \* what Display writes for err

vars == <<pc, fields, slot, assigned, call, input, result, src, err, out>>

--------------------------------------------------------------------------
\* Bounds

MaxFields == 2      \* registry size up to which add_field is explored
MaxItems == 2       \* length of the sequences handed to from_iter
MaxLen == 4         \* length of the lexer's input
MaxErrLen == 4      \* length of the text handed to parse

Types == {"Bytes", "Unsigned"}
Names == {<<"x">>, <<"y">>, <<"x", ".", "y">>}

IdentChars == {"x", "y"}
LexAlphabet == IdentChars \cup {".", ";"}
ErrAlphabet == {"a", " ", "\n"}

BSeq(S, n) == UNION {[1..k -> S] : k \in 0..n}

Min(a, b) == IF a <= b THEN a ELSE b
Max(a, b) == IF a >= b THEN a ELSE b

EmptyMap == [n \in {} |-> 0]
None == [some |-> FALSE]

--------------------------------------------------------------------------
\* IndexMap<String, Type>: insertion-ordered map, keys unique

\* IndexMap::get_full: the index of the entry whose key is name
get_full(fs, name) ==
    IF \E i \in 1..Len(fs) : fs[i].name = name
    THEN [some |-> TRUE,
          index |-> (CHOOSE i \in 1..Len(fs) :
                        /\ fs[i].name = name
                        /\ \A j \in 1..(i - 1) : fs[j].name # name) - 1]
    ELSE None

\* IndexMap::get_index: the entry at an index
get_index(fs, index) == fs[index + 1]

\* VacantEntry::insert: the new entry goes after every existing one
insert_front(fs, name, ty) == <<[name |-> name, ty |-> ty]>> \o fs

VacantEntry_insert(fs, name, ty) == Append(fs, [name |-> name, ty |-> ty])

\* IndexMap::insert: an existing key keeps its index and has its value
\* replaced; a new key is appended
IndexMap_insert(fs, name, ty) ==
    LET at == get_full(fs, name) IN
    IF at.some
    THEN [fs EXCEPT ![at.index + 1].ty = ty]
    ELSE Append(fs, [name |-> name, ty |-> ty])

\* IndexMap::from_iter: an empty map extended with the items in order
RECURSIVE IndexMap_from_iter(_)
IndexMap_from_iter(items) ==
    IF items = <<>> THEN <<>>
    ELSE LET n == Len(items) IN
         IndexMap_insert(IndexMap_from_iter(SubSeq(items, 1, n - 1)),
                         items[n][1], items[n][2])

--------------------------------------------------------------------------
\* Scheme

\* impl FromIterator<(String, Type)> for Scheme
from_iter(items) == [fields |-> IndexMap_from_iter(items), panic |-> FALSE]

\* Scheme::add_field with the occupied entry overwritten instead of refused
add_field_overwrite(fs, name, ty) ==
    [fields |-> IndexMap_insert(fs, name, ty), panic |-> FALSE]

\* Scheme::add_field
add_field(fs, name, ty) ==
    IF get_full(fs, name).some
    THEN [fields |-> fs, panic |-> TRUE]
    ELSE [fields |-> VacantEntry_insert(fs, name, ty), panic |-> FALSE]

\* Scheme::get_field_index: Ok(Field {index}) or Err(UnknownFieldError)
get_field_index(fs, name) ==
    LET at == get_full(fs, name) IN
    IF at.some THEN [ok |-> TRUE, index |-> at.index]
    ELSE [ok |-> FALSE, index |-> -1]

\* Scheme::get_field_count
get_field_count(fs) == Len(fs)

\* Field::name
Field_name(fs, f) == get_index(fs, f.index).name

\* Field::get_type reading the slot after the field's own
get_type_next(fs, f) == get_index(fs, (f.index + 1) % Len(fs)).ty

\* Field::get_type
Field_get_type(fs, f) == get_index(fs, f.index).ty

--------------------------------------------------------------------------
\* History of registrations, kept beside the registry

\* the distinct names of items, in order of first occurrence
RECURSIVE FirstNames(_)
FirstNames(items) ==
    IF items = <<>> THEN <<>>
    ELSE LET n == Len(items)
             before == FirstNames(SubSeq(items, 1, n - 1)) IN
         IF \E i \in 1..Len(before) : before[i] = items[n][1]
         THEN before ELSE Append(before, items[n][1])

ItemNames(items) == {items[i][1] : i \in 1..Len(items)}

HasDuplicate(items) ==
    \E i, j \in 1..Len(items) : i # j /\ items[i][1] = items[j][1]

SlotsOf(items) ==
    LET first == FirstNames(items) IN
    [n \in ItemNames(items) |->
        (CHOOSE i \in 1..Len(first) : first[i] = n) - 1]

LastTypeOf(items) ==
    [n \in ItemNames(items) |->
        LET last == CHOOSE i \in 1..Len(items) :
                        /\ items[i][1] = n
                        /\ \A j \in (i + 1)..Len(items) : items[j][1] # n
        IN items[last][2]]

Extend(f, k, v) == [x \in DOMAIN f \cup {k} |-> IF x = k THEN v ELSE f[x]]

--------------------------------------------------------------------------
\* Registry operations

NoCall == [op |-> "none"]
NoResult == [kind |-> "none"]

LexIdle == /\ input = <<>>
           /\ result = NoResult
ErrIdle == /\ src = <<>>
           /\ err = None
           /\ out = None

InitScheme ==
    /\ pc = "new"
    /\ fields = <<>>
    /\ slot = EmptyMap
    /\ assigned = EmptyMap
    /\ call = NoCall
    /\ LexIdle
    /\ ErrIdle

\* Scheme::default()
Default ==
    /\ pc = "new"
    /\ pc' = "ready"
    /\ fields' = <<>>
    /\ call' = [op |-> "default"]
    /\ UNCHANGED <<slot, assigned, input, result, src, err, out>>

\* items.collect::<Scheme>()
FromIter(items) ==
    /\ pc = "new"
    /\ LET r == from_iter(items) IN
       /\ pc' = "ready"
       /\ fields' = r.fields
       /\ call' = [op |-> "from_iter", items |-> items, panic |-> r.panic]
       /\ slot' = SlotsOf(items)
       /\ assigned' = LastTypeOf(items)
    /\ UNCHANGED <<input, result, src, err, out>>

\* scheme.add_field(name, ty); a panic unwinds and leaves the scheme to
\* whoever catches it
AddField(name, ty) ==
    /\ pc = "ready"
    /\ get_field_count(fields) < MaxFields \/ get_full(fields, name).some
    /\ LET r == add_field(fields, name, ty) IN
       /\ fields' = r.fields
       /\ call' = [op |-> "add_field", name |-> name, ty |-> ty,
                   panic |-> r.panic, known |-> name \in DOMAIN slot]
       /\ slot' = IF r.panic THEN slot
                  ELSE Extend(slot, name, Len(fields))
       /\ assigned' = IF r.panic THEN assigned
                      ELSE Extend(assigned, name, ty)
    /\ UNCHANGED <<pc, input, result, src, err, out>>

\* scheme.get_field_index(name), and name() and get_type() of the Field
GetFieldIndex(name) ==
    /\ pc = "ready"
    /\ LET r == get_field_index(fields, name) IN
       call' = IF r.ok
               THEN [op |-> "get_field_index", name |-> name, ok |-> TRUE,
                     index |-> r.index,
                     field_name |-> Field_name(fields, r),
                     field_type |-> Field_get_type(fields, r)]
               ELSE [op |-> "get_field_index", name |-> name, ok |-> FALSE]
    /\ UNCHANGED <<pc, fields, slot, assigned, input, result, src, err, out>>

NextScheme ==
    \/ Default
    \/ \E items \in BSeq(Names \X Types, MaxItems) : FromIter(items)
    \/ \E name \in Names, ty \in Types : AddField(name, ty)
    \/ \E name \in Names : GetFieldIndex(name)

Spec == InitScheme /\ [][NextScheme]_vars

--------------------------------------------------------------------------
\* lex:: helpers used by the field lexer. A position is the 0-based offset
\* of the remaining input inside the lexer's initial input.

IsIdent(c) == c \in IdentChars

\* the offset of the first character at or after pos that is not accepted
RECURSIVE SkipWhile(_, _)
SkipWhile(s, pos) ==
    IF pos < Len(s) /\ IsIdent(s[pos + 1]) THEN SkipWhile(s, pos + 1) ELSE pos

\* lex::take_while(input, "identifier character", f): at least one accepted
\* character, else ExpectedName spanning the whole remaining input
take_while(s, pos) ==
    LET rest == SkipWhile(s, pos) IN
    IF rest # pos
    THEN [ok |-> TRUE, rest |-> rest]
    ELSE [ok |-> FALSE, kind |-> "ExpectedName",
          span_start |-> pos, span_len |-> Len(s) - pos]

\* lex::expect(input, lit)
expect(s, pos, lit) ==
    IF /\ pos + Len(lit) <= Len(s)
       /\ SubSeq(s, pos + 1, pos + Len(lit)) = lit
    THEN [ok |-> TRUE, rest |-> pos + Len(lit)]
    ELSE [ok |-> FALSE, kind |-> "ExpectedLiteral",
          span_start |-> pos, span_len |-> Len(s) - pos]

\* lex::span(input, rest): what lies between the two positions
span(from, rest) == [start |-> from, len |-> rest - from]

Text(s, sp) == SubSeq(s, sp.start + 1, sp.start + sp.len)

--------------------------------------------------------------------------
\* Field::lex_with

\* the loop of lex_with: identifier runs, each followed by a dot or the end
RECURSIVE lex_loop(_, _)
lex_loop(s, pos) ==
    LET run == take_while(s, pos) IN
    IF ~run.ok THEN run
    ELSE LET dot == expect(s, run.rest, <<".">>) IN
         IF dot.ok THEN lex_loop(s, dot.rest)
         ELSE [ok |-> TRUE, rest |-> run.rest]

\* the loop, breaking instead of failing when no identifier follows a dot
RECURSIVE lex_loop_lenient(_, _)
lex_loop_lenient(s, pos) ==
    LET run == take_while(s, pos) IN
    IF ~run.ok THEN (IF pos = 0 THEN run ELSE [ok |-> TRUE, rest |-> pos])
    ELSE LET dot == expect(s, run.rest, <<".">>) IN
         IF dot.ok THEN lex_loop_lenient(s, dot.rest)
         ELSE [ok |-> TRUE, rest |-> run.rest]

Lookup(s, fs, scanned, miss_len) ==
    LET name == span(0, scanned.rest)
        field == get_field_index(fs, Text(s, name)) IN
    IF field.ok
    THEN [kind |-> "Ok", index |-> field.index, rest |-> scanned.rest,
          looked |-> <<Text(s, name)>>]
    ELSE [kind |-> "UnknownField", span_start |-> name.start,
          span_len |-> miss_len, looked |-> <<Text(s, name)>>]

\* lex_with falling back to the longest registered shorter candidate
lex_with_backtrack(s, fs) ==
    LET scanned == lex_loop(s, 0) IN
    IF ~scanned.ok
    THEN [kind |-> scanned.kind, span_start |-> scanned.span_start,
          span_len |-> scanned.span_len, looked |-> <<>>]
    ELSE LET hits == {k \in 1..scanned.rest :
                        /\ get_field_index(fs, SubSeq(s, 1, k)).ok
                        /\ k = scanned.rest \/ s[k + 1] = "."} IN
         IF hits = {} THEN Lookup(s, fs, scanned, scanned.rest)
         ELSE Lookup(s, fs,
                     [ok |-> TRUE,
                      rest |-> CHOOSE k \in hits : \A j \in hits : j <= k],
                     scanned.rest)

\* lex_with accepting a candidate that ends in a dot
lex_with_lenient(s, fs) ==
    LET scanned == lex_loop_lenient(s, 0) IN
    IF ~scanned.ok
    THEN [kind |-> scanned.kind, span_start |-> scanned.span_start,
          span_len |-> scanned.span_len, looked |-> <<>>]
    ELSE Lookup(s, fs, scanned, scanned.rest)

\* lex_with reporting a miss with the whole input as its span
lex_with_rest_span(s, fs) ==
    LET scanned == lex_loop(s, 0) IN
    IF ~scanned.ok
    THEN [kind |-> scanned.kind, span_start |-> scanned.span_start,
          span_len |-> scanned.span_len, looked |-> <<>>]
    ELSE Lookup(s, fs, scanned, Len(s))

\* Field::lex_with(input, scheme): Ok((field, rest)) or Err((kind, span));
\* looked lists the names handed to get_field_index
lex_with(s, fs) ==
    LET scanned == lex_loop(s, 0) IN
    IF ~scanned.ok
    THEN [kind |-> scanned.kind, span_start |-> scanned.span_start,
          span_len |-> scanned.span_len, looked |-> <<>>]
    ELSE Lookup(s, fs, scanned, scanned.rest)

\* a scheme collected from some items, and a text to lex against it
InitLex ==
    /\ pc = "lex"
    /\ \E items \in BSeq(Names \X Types, MaxItems) :
          /\ fields = from_iter(items).fields
          /\ slot = SlotsOf(items)
          /\ assigned = LastTypeOf(items)
          /\ call = [op |-> "from_iter", items |-> items,
                     panic |-> from_iter(items).panic]
    /\ input \in BSeq(LexAlphabet, MaxLen)
    /\ result = NoResult
    /\ ErrIdle

\* Field::lex_with(input, scheme)
LexWith ==
    /\ pc = "lex"
    /\ pc' = "lexed"
    /\ result' = lex_with(input, fields)
    /\ UNCHANGED <<fields, slot, assigned, call, input, src, err, out>>

NextLex == LexWith

SpecLex == InitLex /\ [][NextLex]_vars

--------------------------------------------------------------------------
\* ParseError

Whitespace == {" ", "\n"}
LexKinds == {"ExpectedName", "UnknownField"}

\* input[..upto].match_indices('\n').map(pos + 1).scan(0, ..).last()
\* .unwrap_or_default(): the number of newlines in the first upto bytes and
\* the offset right after the last of them
RECURSIVE LineScan(_, _)
LineScan(s, upto) ==
    IF upto = 0 THEN [line_number |-> 0, line_start |-> 0]
    ELSE LET before == LineScan(s, upto - 1) IN
         IF s[upto] = "\n"
         THEN [line_number |-> before.line_number + 1, line_start |-> upto]
         ELSE before

\* str::find('\n'): the offset of the first newline, if any
find_newline(s) ==
    IF \E i \in 1..Len(s) : s[i] = "\n"
    THEN [some |-> TRUE,
          pos |-> (CHOOSE i \in 1..Len(s) :
                      /\ s[i] = "\n"
                      /\ \A j \in 1..(i - 1) : s[j] # "\n") - 1]
    ELSE None

\* ParseError::new up to the search for the line's end: the line's number,
\* the text from the line's start on, the span's start within it and the
\* first newline of that text. usize subtraction below zero panics in a debug
\* build and wraps in a release build, where the wrapped room is larger than
\* any span; underflow records that it happened.
Located(s, sp) ==
    LET scan == LineScan(s, Min(sp.start, Len(s)))
        rest == SubSeq(s, scan.line_start + 1, Len(s))
        span_start == sp.start - scan.line_start
        line_end == find_newline(rest)
    IN [line_number |-> scan.line_number,
        rest |-> rest,
        span_start |-> span_start,
        line_end |-> line_end,
        underflow |-> \/ span_start < 0
                      \/ line_end.some /\ line_end.pos < span_start]

\* the ParseError stored once the span's length is settled
Stored(s, kind, sp, at, span_len) ==
    [some |-> TRUE,
     kind |-> kind,
     input |-> IF at.line_end.some THEN SubSeq(at.rest, 1, at.line_end.pos)
               ELSE at.rest,
     line_number |-> at.line_number,
     span_start |-> at.span_start,
     span_len |-> span_len,
     underflow |-> at.underflow,
     out_of_range |-> sp.start > Len(s)]

\* ParseError::new clamping the span to the line and its newline
new_clamp_incl(s, kind, sp) ==
    LET at == Located(s, sp) IN
    Stored(s, kind, sp, at,
           IF at.line_end.some /\ ~at.underflow
           THEN Min(sp.len, at.line_end.pos - at.span_start + 1)
           ELSE sp.len)

\* ParseError::new keeping the span's whole length
new_unclamped(s, kind, sp) == Stored(s, kind, sp, Located(s, sp), sp.len)

\* ParseError::new(input, (kind, span))
ParseError_new(s, kind, sp) ==
    LET at == Located(s, sp) IN
    Stored(s, kind, sp, at,
           IF at.line_end.some /\ ~at.underflow
           THEN Min(sp.len, at.line_end.pos - at.span_start)
           ELSE sp.len)

\* impl Display for ParseError: the header's line and column, the line of
\* text, and the numbers of spaces and carets under it
Display_fmt(e) ==
    [some |-> TRUE,
     line |-> e.line_number + 1,
     column |-> e.span_start + 1,
     text |-> e.input,
     spaces |-> e.span_start,
     carets |-> Max(1, e.span_len),
     message |-> e.kind]

\* str::trim: the slice left after leading and trailing whitespace
trim(s) ==
    LET inked == {i \in 1..Len(s) : s[i] \notin Whitespace} IN
    IF inked = {} THEN [start |-> Len(s), len |-> 0]
    ELSE LET first == CHOOSE i \in inked : \A j \in inked : i <= j
             last == CHOOSE i \in inked : \A j \in inked : j <= i
         IN [start |-> first - 1, len |-> last - first + 1]

\* the slices that lie inside the slice sl
SubSlices(sl) ==
    {sp \in [start : sl.start..(sl.start + sl.len), len : 0..sl.len] :
        sp.start + sp.len <= sl.start + sl.len}

Whole(s) == [start |-> 0, len |-> Len(s)]

\* Scheme::parse with the error against the trimmed text
parse_trimmed(s, kind, sp) ==
    ParseError_new(Text(s, trim(s)), kind,
                   [start |-> sp.start - trim(s).start, len |-> sp.len])

\* Scheme::parse on a lexing failure: .map_err(|err| ParseError::new(input, err))
parse(s, kind, sp) == ParseError_new(s, kind, sp)

\* a default scheme and a text to parse
InitErr ==
    /\ pc = "text"
    /\ fields = <<>>
    /\ slot = EmptyMap
    /\ assigned = EmptyMap
    /\ call = [op |-> "default"]
    /\ LexIdle
    /\ src \in BSeq(ErrAlphabet, MaxErrLen)
    /\ err = None
    /\ out = None

\* ParseError::new(src, (kind, span)) for a span inside src
NewError(kind, sp) ==
    /\ pc = "text"
    /\ pc' = "error"
    /\ call' = [op |-> "new", span |-> sp]
    /\ err' = ParseError_new(src, kind, sp)
    /\ UNCHANGED <<fields, slot, assigned, input, result, src, out>>

\* scheme.parse(src) when lexing the trimmed text fails with a span inside it
ParseFails(kind, sp) ==
    /\ pc = "text"
    /\ pc' = "error"
    /\ call' = [op |-> "parse", span |-> sp]
    /\ err' = parse(src, kind, sp)
    /\ UNCHANGED <<fields, slot, assigned, input, result, src, out>>

\* scheme.parse(src) when the whole trimmed text lexes
ParseOk ==
    /\ pc = "text"
    /\ pc' = "parsed"
    /\ call' = [op |-> "parse", span |-> trim(src)]
    /\ UNCHANGED <<fields, slot, assigned, input, result, src, err, out>>

\* format!("{}", err)
Display ==
    /\ pc = "error"
    /\ pc' = "shown"
    /\ out' = Display_fmt(err)
    /\ UNCHANGED <<fields, slot, assigned, call, input, result, src, err>>

NextErr ==
    \/ \E kind \in LexKinds, sp \in SubSlices(Whole(src)) : NewError(kind, sp)
    \/ \E kind \in LexKinds, sp \in SubSlices(trim(src)) : ParseFails(kind, sp)
    \/ ParseOk
    \/ Display

SpecErr == InitErr /\ [][NextErr]_vars

--------------------------------------------------------------------------
\* Registry claims

Registered == DOMAIN slot

\* C1: every registered name keeps the slot index it was given when it was
\* registered (the number of fields registered before it), whatever calls
\* follow, and no two registered names have the same index.
C1_SlotsStable ==
    /\ \A n \in Registered :
          /\ get_field_index(fields, n).ok
          /\ get_field_index(fields, n).index = slot[n]
    /\ \A n1, n2 \in Registered :
          n1 # n2 =>
            get_field_index(fields, n1).index # get_field_index(fields, n2).index

\* two names registered, then a fatal add_field
C1_Witness ==
    /\ call.op = "add_field"
    /\ call.panic
    /\ get_field_count(fields) >= 2

\* C2: add_field of a name that is already registered panics, for any type,
\* and leaves the registry as it was.
C2_DuplicateFatal ==
    [][(call'.op = "add_field" /\ call'.known) =>
          /\ call'.panic
          /\ fields' = fields
          /\ get_field_count(fields') = get_field_count(fields)]_vars

\* a registered name was added again with the type it already has
C2_Witness ==
    /\ call.op = "add_field"
    /\ call.known
    /\ call.panic
    /\ assigned[call.name] = call.ty

\* C3: from_iter over a sequence holding the same name twice is fatal.
C3_BulkDuplicateFatal ==
    (call.op = "from_iter" /\ HasDuplicate(call.items)) => call.panic

\* C4: get_field_index of a registered name succeeds and the Field's name()
\* and get_type() are the name and the type it was registered with; a name
\* that is not registered gives UnknownFieldError.
C4_RoundTrip ==
    /\ \A n \in Registered :
          LET f == get_field_index(fields, n) IN
          /\ f.ok
          /\ Field_name(fields, f) = n
          /\ Field_get_type(fields, f) = assigned[n]
    /\ \A n \in Names \ Registered : ~get_field_index(fields, n).ok
    /\ call.op = "get_field_index" =>
          IF call.name \in Registered
          THEN /\ call.ok
               /\ call.field_name = call.name
               /\ call.field_type = assigned[call.name]
          ELSE ~call.ok

\* the first field looked up after a second one was registered
C4_Witness ==
    /\ call.op = "get_field_index"
    /\ call.ok
    /\ call.index = 0
    /\ get_field_count(fields) >= 2

--------------------------------------------------------------------------
\* Field lexer claims

\* identifier runs joined by single dots
IsDottedRun(w) ==
    /\ Len(w) > 0
    /\ \A i \in 1..Len(w) : IsIdent(w[i]) \/ w[i] = "."
    /\ IsIdent(w[1])
    /\ IsIdent(w[Len(w)])
    /\ \A i \in 1..(Len(w) - 1) : ~(w[i] = "." /\ w[i + 1] = ".")

\* the length of the maximal dotted identifier run at the start of s
MaxRun(s) ==
    CHOOSE k \in 0..Len(s) :
        /\ k = 0 \/ IsDottedRun(SubSeq(s, 1, k))
        /\ \A j \in (k + 1)..Len(s) : ~IsDottedRun(SubSeq(s, 1, j))

\* the lexer's outcome as the maximal run alone would decide it
DecidedByRun ==
    LET k == MaxRun(input)
        run == SubSeq(input, 1, k) IN
    IF run \in Registered
    THEN /\ result.kind = "Ok"
         /\ Field_name(fields, result) = run
         /\ result.index = slot[run]
         /\ result.rest = k
         /\ result.looked = <<run>>
    ELSE /\ result.kind = "UnknownField"
         /\ result.span_start = 0
         /\ result.span_len = k
         /\ result.looked = <<run>>

\* C5 as stated: lex_with is decided by the maximal dotted identifier run at
\* the start of the input, whatever follows the run: the Field and the input
\* after the run if the run is registered, else UnknownField spanning the run.
C5_DecidedByRun == (pc = "lexed" /\ MaxRun(input) > 0) => DecidedByRun

\* C5 amended: when the input starts with an identifier character and the
\* maximal dotted identifier run is not followed by a dot, lex_with is
\* decided by that run: the Field and the input after the run if the run is
\* registered, else UnknownField spanning exactly the run; only the whole run
\* is looked up.
C5_DecidedByRunUnlessDot ==
    (/\ pc = "lexed"
     /\ MaxRun(input) > 0
     /\ MaxRun(input) = Len(input) \/ input[MaxRun(input) + 1] # ".")
        => DecidedByRun

\* a registered name followed by a dotted tail that makes the run unknown,
\* with text after the run
C5_Witness ==
    /\ pc = "lexed"
    /\ result.kind = "UnknownField"
    /\ \E k \in 1..(MaxRun(input) - 1) :
          /\ SubSeq(input, 1, k) \in Registered
          /\ input[k + 1] = "."
    /\ MaxRun(input) < Len(input)

\* the positions where the lexer needs an identifier character: the start of
\* the input and right after each dot that follows a dotted run
NeedsIdent(s, p) ==
    /\ p \in 0..Len(s)
    /\ p = 0 \/ (p >= 2 /\ s[p] = "." /\ IsDottedRun(SubSeq(s, 1, p - 1)))

\* C6: when the character at the start of the input or right after a consumed
\* dot is not an identifier character, or the input ends there, lex_with
\* fails with ExpectedName spanning the remainder from that position, and
\* nothing is looked up; every name that is looked up is a dotted run.
C6_ExpectedIdent ==
    pc = "lexed" =>
      /\ \A p \in 0..Len(input) :
            (NeedsIdent(input, p) /\ (p = Len(input) \/ ~IsIdent(input[p + 1])))
              => /\ result.kind = "ExpectedName"
                 /\ result.span_start = p
                 /\ result.span_len = Len(input) - p
                 /\ result.looked = <<>>
      /\ \A i \in 1..Len(result.looked) : IsDottedRun(result.looked[i])

\* two adjacent dots with text after them
C6_Witness ==
    /\ pc = "lexed"
    /\ result.kind = "ExpectedName"
    /\ result.span_start >= 2
    /\ result.span_len >= 2
    /\ input[result.span_start + 1] = "."

\* C7 as stated: every failure's span is the minimal offending substring,
\* the unknown name or the one offending character, without the text after.
C7_MinimalSpan ==
    pc = "lexed" =>
      /\ result.kind = "UnknownField" =>
            /\ result.span_start = 0
            /\ result.span_len = MaxRun(input)
      /\ result.kind = "ExpectedName" => result.span_len <= 1

\* C7 amended: a lookup miss carries exactly the candidate name as its span,
\* without the text after it; a malformed identifier carries the whole
\* unconsumed remainder of the input, from the offending character on.
C7_SpanOfFailure ==
    pc = "lexed" =>
      /\ result.kind = "UnknownField" =>
            /\ result.span_start = 0
            /\ result.span_len = MaxRun(input)
            /\ SubSeq(input, 1, result.span_len) = result.looked[1]
      /\ result.kind = "ExpectedName" =>
            /\ result.span_start + result.span_len = Len(input)
            /\ result.span_len > 0 => ~IsIdent(input[result.span_start + 1])

\* an unknown name with text after it
C7_Witness ==
    /\ pc = "lexed"
    /\ result.kind = "UnknownField"
    /\ result.span_len < Len(input)

--------------------------------------------------------------------------
\* ParseError claims

Built == pc \in {"error", "shown"}

\* the 1-based indices of the newlines of src before the offending span
NewlinesBefore == {i \in 1..call.span.start : src[i] = "\n"}

\* the offset right after the last newline before the span, 0 if none
LineStart ==
    IF NewlinesBefore = {} THEN 0
    ELSE CHOOSE i \in NewlinesBefore : \A j \in NewlinesBefore : j <= i

\* the offset of the end of the span's line: the next newline or the end
LineEnd ==
    LET later == {i \in (LineStart + 1)..Len(src) : src[i] = "\n"} IN
    IF later = {} THEN Len(src)
    ELSE (CHOOSE i \in later : \A j \in later : i <= j) - 1

HasNewline(s) == \E i \in 1..Len(s) : s[i] = "\n"

\* C8: positions are reported against the original, untrimmed text: the line
\* number is the number of newlines before the span, the column is the
\* span's offset from just after the last of them, Display prints both
\* 1-based and then only the span's own line.
C8_Position ==
    Built =>
      /\ err.line_number = Cardinality(NewlinesBefore)
      /\ err.span_start = call.span.start - LineStart
      /\ pc = "shown" =>
            /\ out.line = Cardinality(NewlinesBefore) + 1
            /\ out.column = call.span.start - LineStart + 1
            /\ out.text = SubSeq(src, LineStart + 1, LineEnd)
            /\ ~HasNewline(out.text)

\* parse of a text whose leading newline is trimmed, failing on the second
\* of three lines
C8_Witness ==
    /\ pc = "shown"
    /\ call.op = "parse"
    /\ Len(src) >= 1
    /\ src[1] = "\n"
    /\ out.line = 2
    /\ LineEnd < Len(src)

\* the span as given runs past the end of its line
SpanPastLine == call.span.start + call.span.len > LineEnd

\* C9 as stated: when the span runs past the end of its line, the spaces and
\* the carets together are never longer than the stored line.
C9_CaretsWithinLine ==
    (pc = "shown" /\ SpanPastLine) =>
        out.spaces + out.carets <= Len(out.text)

\* C9 amended: when the span runs past the end of its line, the stored span
\* ends at the line's end (span_start + span_len is the line's length), and
\* the caret row is no longer than the line unless the span begins exactly
\* at the newline that ends the line: then it is the line's length plus the
\* one caret drawn for an empty span.
C9_CaretsClamped ==
    (pc = "shown" /\ SpanPastLine) =>
      /\ out.spaces + err.span_len = Len(out.text)
      /\ IF out.spaces < Len(out.text)
         THEN out.spaces + out.carets = Len(out.text)
         ELSE /\ err.span_len = 0
              /\ out.spaces + out.carets = Len(out.text) + 1

\* a span of three bytes starting inside a line and crossing its newline
C9_Witness ==
    /\ pc = "shown"
    /\ SpanPastLine
    /\ call.span.len >= 3
    /\ out.carets >= 1
    /\ out.carets < call.span.len
    /\ out.spaces < Len(out.text)

\* C10: ParseError::new never subtracts below zero nor slices out of range,
\* and stores a line without a newline that holds the whole stored span.
C10_SpanInLine ==
    Built =>
      /\ ~err.underflow
      /\ ~err.out_of_range
      /\ ~HasNewline(err.input)
      /\ err.span_start >= 0
      /\ err.span_len >= 0
      /\ err.span_start + err.span_len <= Len(err.input)

\* a span on a later line that was cut at the line's newline
C10_Witness ==
    /\ pc = "error"
    /\ call.op = "new"
    /\ err.line_number >= 1
    /\ err.span_len < call.span.len
    /\ err.span_len >= 1

====
